---- MODULE Spec2Model ----
(***************************************************************************)
(* A model of the TLE codec of python-sgp4: sgp4_vec/io.py (twoline2rv,    *)
(* verify_checksum, fix_checksum, compute_checksum, rv2twoline) and the    *)
(* Satellite constructor of sgp4/model.py.                                 *)
(*                                                                         *)
(* A line of text is a sequence of one-character strings.  Positions named *)
(* i, j in Slice/SliceAssign/Item are Python's 0-based indices; columns in *)
(* comments are the 1-based columns of the TLE format.                     *)
(*                                                                         *)
(* Numbers with a fractional part are decimals [neg, ip, fp]: sign,        *)
(* integer part and fractional part in units of 10^-8.  The products with  *)
(* deg2rad and xpdotp that twoline2rv applies and rv2twoline divides out   *)
(* again are carried as exact arithmetic; IEEE-754 round-off is outside    *)
(* the model.                                                              *)
(***************************************************************************)
EXTENDS Integers, Sequences, FiniteSets

\* ------------------------------------------------------------------ text

Digits == <<"0", "1", "2", "3", "4", "5", "6", "7", "8", "9">>

DigitSet == {Digits[k] : k \in 1..10}

\* str.isdigit() on one character (ASCII alphabet).
IsDigit(c) == c \in DigitSet

\* int(c) for one decimal digit.
DigitVal(c) == CHOOSE k \in 0..9 : Digits[k + 1] = c

Min(a, b) == IF a < b THEN a ELSE b

Max(a, b) == IF a > b THEN a ELSE b

RECURSIVE Pow10(_)
Pow10(n) == IF n <= 0 THEN 1 ELSE 10 * Pow10(n - 1)

\* Python s[i:j] for 0 <= i, 0 <= j.
Slice(s, i, j) == SubSeq(s, i + 1, Min(j, Len(s)))

\* Python list l[i:j] = v : the slice is replaced by all of v, whatever its
\* length, so the list grows or shrinks when Len(v) # j - i.
SliceAssign(l, i, j, v) ==
    LET a == Min(i, Len(l))
        b == Max(a, Min(j, Len(l)))
    IN  SubSeq(l, 1, a) \o v \o SubSeq(l, b + 1, Len(l))

\* Python list l[i] = c (the caller checks i < len(l): IndexError otherwise).
SetItem(l, i, c) == [l EXCEPT ![i + 1] = c]

Spaces(n) == [k \in 1..n |-> " "]

\* str.rstrip() (the only whitespace of the alphabet is the space).
RECURSIVE RStrip(_)
RStrip(s) ==
    IF Len(s) > 0 /\ s[Len(s)] = " " THEN RStrip(SubSeq(s, 1, Len(s) - 1)) ELSE s

RECURSIVE LStrip(_)
LStrip(s) ==
    IF Len(s) > 0 /\ s[1] = " " THEN LStrip(SubSeq(s, 2, Len(s))) ELSE s

Strip(s) == LStrip(RStrip(s))

\* str.ljust(n)
LJust(s, n) == IF Len(s) >= n THEN s ELSE s \o Spaces(n - Len(s))

\* str.rjust(n, pad): the "{:>n}" alignment of str.format
RJust(s, n, pad) == IF Len(s) >= n THEN s ELSE [k \in 1..(n - Len(s)) |-> pad] \o s

AllDigits(s) == \A k \in 1..Len(s) : IsDigit(s[k])

\* The value of a run of decimal digits.
RECURSIVE DigitsVal(_)
DigitsVal(s) ==
    IF Len(s) = 0 THEN 0
    ELSE 10 * DigitsVal(SubSeq(s, 1, Len(s) - 1)) + DigitVal(s[Len(s)])

\* str(n) for n >= 0
RECURSIVE StrNat(_)
StrNat(n) == IF n < 10 THEN <<Digits[n + 1]>> ELSE StrNat(n \div 10) \o <<Digits[(n % 10) + 1]>>

\* str(n)
Str(n) == IF n < 0 THEN <<"-">> \o StrNat(-n) ELSE StrNat(n)

\* ------------------------------------------------------------- checksum

\* What one character adds to the checksum: int(c) if c.isdigit() else c == '-'
CharValue(c) == IF IsDigit(c) THEN DigitVal(c) ELSE IF c = "-" THEN 1 ELSE 0

RECURSIVE SumValues(_)
SumValues(s) == IF Len(s) = 0 THEN 0 ELSE CharValue(s[1]) + SumValues(SubSeq(s, 2, Len(s)))

\* A plausible slip: the sum runs over the whole line, not line[0:68].
compute_checksum_whole(line) == SumValues(line) % 10

compute_checksum(line) == SumValues(Slice(line, 0, 68)) % 10

\* A plausible slip: the line is cut at 69, keeping an old checksum character.
fix_checksum_keep69(line) == LJust(Slice(line, 0, 69), 68) \o Str(compute_checksum(line))

fix_checksum(line) == LJust(Slice(line, 0, 68), 68) \o Str(compute_checksum(line))

\* One pass of the loop body of verify_checksum: TRUE when the line raises.
ChecksumFails(line) ==
    LET checksum == Slice(line, 68, 69)
    IN  /\ Len(checksum) = 1
        /\ IsDigit(checksum[1])
        /\ DigitVal(checksum[1]) # compute_checksum(line)

\* A plausible slip: a line without a digit at column 69 ends the loop
\* (break) instead of moving to the next line (continue).
RECURSIVE verify_checksum_break(_)
verify_checksum_break(lines) ==
    IF Len(lines) = 0 THEN 0
    ELSE IF ~(Len(Slice(lines[1], 68, 69)) = 1 /\ IsDigit(lines[1][69])) THEN 0
    ELSE IF ChecksumFails(lines[1]) THEN 1
    ELSE LET r == verify_checksum_break(SubSeq(lines, 2, Len(lines)))
         IN  IF r = 0 THEN 0 ELSE r + 1

\* verify_checksum(*lines): 0 when it returns normally, otherwise the
\* 1-based position of the line whose ValueError it raises.
RECURSIVE verify_checksum(_)
verify_checksum(lines) ==
    IF Len(lines) = 0 THEN 0
    ELSE IF ChecksumFails(lines[1]) THEN 1
    ELSE LET r == verify_checksum(SubSeq(lines, 2, Len(lines)))
         IN  IF r = 0 THEN 0 ELSE r + 1

\* -------------------------------------------------------------- numbers

\* The text starts with a sign.
HasSign(t) == Len(t) > 0 /\ t[1] \in {"+", "-"}

IsMinus(t) == Len(t) > 0 /\ t[1] = "-"

Unsigned(t) == IF HasSign(t) THEN SubSeq(t, 2, Len(t)) ELSE t

IntResult(neg, body) ==
    IF Len(body) > 0 /\ AllDigits(body)
    THEN [ok |-> TRUE, val |-> IF neg THEN -DigitsVal(body) ELSE DigitsVal(body)]
    ELSE [ok |-> FALSE, val |-> 0]

\* int(s): surrounding blanks dropped, an optional sign, then digits only.
ParseInt(s) == IntResult(IsMinus(Strip(s)), Unsigned(Strip(s)))

\* The position of the first "." of s, or 0.
RECURSIVE DotAt(_)
DotAt(s) ==
    IF Len(s) = 0 THEN 0
    ELSE IF s[1] = "." THEN 1
    ELSE LET r == DotAt(SubSeq(s, 2, Len(s))) IN IF r = 0 THEN 0 ELSE r + 1

\* The fractional digits as eight digits: cut after the eighth, zero-filled.
FracDigits(s) == [k \in 1..8 |-> IF k <= Len(s) THEN s[k] ELSE "0"]

FloatResult(neg, ipart, fpart) ==
    IF AllDigits(ipart) /\ AllDigits(fpart) /\ Len(ipart) + Len(fpart) > 0
    THEN [ok |-> TRUE, neg |-> neg, ip |-> DigitsVal(ipart),
          fp |-> DigitsVal(FracDigits(fpart))]
    ELSE [ok |-> FALSE, neg |-> FALSE, ip |-> 0, fp |-> 0]

FloatParts(neg, body, dot) ==
    FloatResult(neg,
                IF dot = 0 THEN body ELSE SubSeq(body, 1, dot - 1),
                IF dot = 0 THEN <<>> ELSE SubSeq(body, dot + 1, Len(body)))

FloatOf(t) == FloatParts(IsMinus(t), Unsigned(t), DotAt(Unsigned(t)))

\* float(s): surrounding blanks dropped, an optional sign, digits with at most
\* one ".", at least one digit.  The value is the decimal [neg, ip, fp].
ParseFloat(s) == FloatOf(Strip(s))

Dec(neg, ip, fp) == [neg |-> neg, ip |-> ip, fp |-> fp]

IsZero(d) == d.ip = 0 /\ d.fp = 0

\* x < 0 (minus zero is not below zero)
IsNegative(d) == d.neg /\ ~IsZero(d)

\* n as k digits, zero-filled on the left.
ZeroFill(n, k) == RJust(StrNat(n), k, "0")

\* "{:.kf}".format(x): x rounded to k decimals (half to even), with its sign.
FormatF(d, k) ==
    LET unit == Pow10(8 - k)
        q    == d.fp \div unit
        r    == d.fp % unit
        up   == 2 * r > unit \/ (2 * r = unit /\ q % 2 = 1)
        q1   == IF up THEN q + 1 ELSE q
        ip1  == IF q1 = Pow10(k) THEN d.ip + 1 ELSE d.ip
        q2   == IF q1 = Pow10(k) THEN 0 ELSE q1
    IN  (IF d.neg THEN <<"-">> ELSE <<>>) \o StrNat(ip1) \o <<".">> \o ZeroFill(q2, k)

\* "{:>w.kf}".format(x): FormatF right-aligned in w characters.
FormatRF(d, w, k) == RJust(FormatF(d, k), w, " ")

\* "{:0wd}".format(n): the zeros go between the sign and the digits.
FormatZD(n, w) ==
    IF n < 0 THEN <<"-">> \o ZeroFill(-n, w - 1) ELSE ZeroFill(n, w)

\* "{:>wd}".format(n)
FormatRD(n, w) == RJust(Str(n), w, " ")

\* A mantissa with a power of ten: value = (ip + fp * 10^-8) * 10^exp, as
\* nddot * pow(10.0, nexp) and bstar * pow(10.0, ibexp) build it.
Scaled(d, e) == [neg |-> d.neg, ip |-> d.ip, fp |-> d.fp, exp |-> e]

Mant(x) == x.ip * Pow10(8) + x.fp

RECURSIVE NumDigits(_)
NumDigits(n) == IF n < 10 THEN 1 ELSE 1 + NumDigits(n \div 10)

\* log10(abs(x)) is a whole number: abs(x) is a power of ten.
IsPow10(x) == Mant(x) = Pow10(NumDigits(Mant(x)) - 1)

\* int(log10(abs(x))) for x # 0: log10 cut toward zero.
IntLog10(x) ==
    LET fl == NumDigits(Mant(x)) + x.exp - 9
    IN  IF fl >= 0 \/ IsPow10(x) THEN fl ELSE fl + 1

\* pow(10.0, log10(abs(x)) - e): abs(x) / 10^e as a decimal.
Fraction(x, e) ==
    LET sh == x.exp - e
        m  == IF sh >= 0 THEN Mant(x) * Pow10(sh) ELSE Mant(x) \div Pow10(-sh)
    IN  Dec(FALSE, m \div Pow10(8), m % Pow10(8))

\* ------------------------------------------------------------ Satellite

LINE1 ==
    << "1", " ", "N", "N", "N", "N", "N", "C", " ", "N", "N", "N",
       "N", "N", "A", "A", "A", " ", "N", "N", "N", "N", "N", ".",
       "N", "N", "N", "N", "N", "N", "N", "N", " ", "+", ".", "N",
       "N", "N", "N", "N", "N", "N", "N", " ", "+", "N", "N", "N",
       "N", "N", "-", "N", " ", "+", "N", "N", "N", "N", "N", "-",
       "N", " ", "N", " ", "N", "N", "N", "N", "N" >>

LINE2 ==
    << "2", " ", "N", "N", "N", "N", "N", " ", "N", "N", "N", ".",
       "N", "N", "N", "N", " ", "N", "N", "N", ".", "N", "N", "N",
       "N", " ", "N", "N", "N", "N", "N", "N", "N", " ", "N", "N",
       "N", ".", "N", "N", "N", "N", " ", "N", "N", "N", ".", "N",
       "N", "N", "N", " ", "N", "N", ".", "N", "N", "N", "N", "N",
       "N", "N", "N", "N", "N", "N", "N", "N", "N" >>

NoSat == [built |-> FALSE]

IsLeap(year) == (year % 4 = 0 /\ year % 100 # 0) \/ year % 400 = 0

DaysInYear(year) == IF IsLeap(year) THEN 366 ELSE 365

\* days2mdhms(year, epochdays) followed by datetime(year, mon, day, ...):
\* the calendar date exists when the whole day of the year names one of the
\* year's days; datetime raises ValueError otherwise.  The moment is kept as
\* [year, doy, frac], frac the time of day in 10^-8 day (864 microseconds).
EpochOf(year, epochdays) ==
    [ok   |-> epochdays.ip >= 1 /\ epochdays.ip <= DaysInYear(year) /\ ~epochdays.neg,
     year |-> year, doy |-> epochdays.ip, frac |-> epochdays.fp]

\* Satellite.__init__: the attributes rv2twoline reads.  epochyr and
\* epochdays are derived from the epoch; pow(no_kozai * tumin, -2/3) raises
\* ZeroDivisionError for a mean motion of zero.
Satellite(satnum, epoch, bstar, inclo, nodeo, ecco, argpo, mo, no_kozai, ndot, nddot, classification, intldesg, elnum, revnum) ==
    IF IsZero(no_kozai) THEN [raised |-> "ZeroDivisionError", satrec |-> NoSat]
    ELSE [raised |-> "none",
          satrec |->
            [built |-> TRUE,
             satnum |-> satnum,
             epochyr |-> epoch.year,
             epochdays |-> Dec(FALSE, epoch.doy, epoch.frac),
             bstar |-> bstar, inclo |-> inclo, nodeo |-> nodeo, ecco |-> ecco,
             argpo |-> argpo, mo |-> mo, no_kozai |-> no_kozai,
             ndot |-> ndot, nddot |-> nddot,
             classification |-> classification, intldesg |-> intldesg,
             elnum |-> elnum, revnum |-> revnum]]

\* ----------------------------------------------------------- twoline2rv

\* A plausible slip: the century turns at 56, not 57.
EpochYear_off_by_one(two_digit_year) ==
    IF two_digit_year < 56 THEN two_digit_year + 2000 ELSE two_digit_year + 1900

\* The "temp fix for years from 1957-2056".
EpochYear(two_digit_year) ==
    IF two_digit_year < 57 THEN two_digit_year + 2000 ELSE two_digit_year + 1900

\* A plausible slip: the test of line[8] is left out.
Line1Matches_no8(line) ==
    /\ Len(line) >= 64
    /\ Slice(line, 0, 2) = <<"1", " ">>
    /\ line[24] = "."
    /\ line[33] = " "
    /\ line[35] = "."
    /\ line[44] = " "
    /\ line[53] = " "
    /\ line[62] = " "
    /\ line[64] = " "

\* The condition of the first if of twoline2rv (line[8] is element 9 here).
Line1Matches(line) ==
    /\ Len(line) >= 64
    /\ Slice(line, 0, 2) = <<"1", " ">>
    /\ line[9] = " "
    /\ line[24] = "."
    /\ line[33] = " "
    /\ line[35] = "."
    /\ line[44] = " "
    /\ line[53] = " "
    /\ line[62] = " "
    /\ line[64] = " "

\* The condition of the second if of twoline2rv.
Line2Matches(line) ==
    /\ Len(line) >= 69
    /\ Slice(line, 0, 2) = <<"2", " ">>
    /\ line[8] = " "
    /\ line[12] = "."
    /\ line[17] = " "
    /\ line[21] = "."
    /\ line[26] = " "
    /\ line[34] = " "
    /\ line[38] = "."
    /\ line[43] = " "
    /\ line[47] = "."
    /\ line[52] = " "

\* The fields of line 1 in the order the code converts them.
Fields1(line) ==
    [ _saved_satnum  |-> ParseInt(Slice(line, 2, 7)),
      classification |-> line[8],
      intldesg       |-> Slice(line, 9, 17),
      two_digit_year |-> ParseInt(Slice(line, 18, 20)),
      epochdays      |-> ParseFloat(Slice(line, 20, 32)),
      ndot           |-> ParseFloat(Slice(line, 33, 43)),
      nddot          |-> ParseFloat(<<line[45], ".">> \o Slice(line, 45, 50)),
      nexp           |-> ParseInt(Slice(line, 50, 52)),
      bstar          |-> ParseFloat(<<line[54], ".">> \o Slice(line, 54, 59)),
      ibexp          |-> ParseInt(Slice(line, 59, 61)),
      elnum          |-> ParseInt(Slice(line, 64, 68)) ]

Order1 == << "_saved_satnum", "two_digit_year", "epochdays", "ndot", "nddot",
             "nexp", "bstar", "ibexp", "elnum" >>

\* line[26:33].replace(' ', '0')
BlanksToZeros(s) == [k \in 1..Len(s) |-> IF s[k] = " " THEN "0" ELSE s[k]]

\* The fields of line 2 in the order the code converts them.
Fields2(line) ==
    [ satnum   |-> ParseInt(Slice(line, 2, 7)),
      inclo    |-> ParseFloat(Slice(line, 8, 16)),
      nodeo    |-> ParseFloat(Slice(line, 17, 25)),
      ecco     |-> ParseFloat(<<"0", ".">> \o BlanksToZeros(Slice(line, 26, 33))),
      argpo    |-> ParseFloat(Slice(line, 34, 42)),
      mo       |-> ParseFloat(Slice(line, 43, 51)),
      no_kozai |-> ParseFloat(Slice(line, 52, 63)),
      revnum   |-> ParseInt(Slice(line, 63, 68)) ]

Order2 == << "satnum", "inclo", "nodeo", "ecco", "argpo", "mo", "no_kozai", "revnum" >>

\* A plausible slip: only the last four digits are compared.
ObjectNumbersMatch_last4(saved_satnum, satnum) == saved_satnum % 10000 = satnum % 10000

\* not (_saved_satnum != satnum)
ObjectNumbersMatch(saved_satnum, satnum) == saved_satnum = satnum

\* The number a conversion returned, without its success flag.
Val(f) == Dec(f.neg, f.ip, f.fp)

\* The first conversion of the order that raises, or 0.
FirstBad(fields, order) ==
    IF \A k \in 1..Len(order) : fields[order[k]].ok THEN 0
    ELSE CHOOSE k \in 1..Len(order) :
            /\ ~fields[order[k]].ok
            /\ \A j \in 1..(k - 1) : fields[order[j]].ok

\* The conversions that ran: all of them, or those up to the one that raised.
Ran(order, bad) == {order[k] : k \in 1..(IF bad = 0 THEN Len(order) ELSE bad)}

Failure(kind, ran1, ran2) ==
    [raised |-> kind, satrec |-> NoSat, parsed1 |-> ran1, parsed2 |-> ran2]

Returned(made, ran1, ran2) ==
    [raised |-> made.raised, satrec |-> made.satrec, parsed1 |-> ran1, parsed2 |-> ran2]

AllOf1 == Ran(Order1, 0) \cup {"classification", "intldesg"}

\* From the year rule to the return statement.
Build(f1, f2, epoch) ==
    IF ~epoch.ok THEN Failure("ValueError", AllOf1, Ran(Order2, 0))
    ELSE Returned(Satellite(f2.satnum.val, epoch,
                            Scaled(f1.bstar, f1.ibexp.val),
                            Val(f2.inclo), Val(f2.nodeo), Val(f2.ecco), Val(f2.argpo),
                            Val(f2.mo), Val(f2.no_kozai),
                            Val(f1.ndot), Scaled(f1.nddot, f1.nexp.val),
                            f1.classification, f1.intldesg,
                            f1.elnum.val, f2.revnum.val),
                  AllOf1, Ran(Order2, 0))

\* The body of the second if: the two object numbers, then the other fields.
Convert2(f1, f2) ==
    IF ~f2.satnum.ok THEN Failure("ValueError", AllOf1, {"satnum"})
    ELSE IF ~ObjectNumbersMatch(f1._saved_satnum.val, f2.satnum.val)
         THEN Failure("mismatch", AllOf1, {"satnum"})
    ELSE IF FirstBad(f2, Order2) # 0
         THEN Failure("ValueError", AllOf1, Ran(Order2, FirstBad(f2, Order2)))
    ELSE Build(f1, f2, EpochOf(EpochYear(f1.two_digit_year.val), f1.epochdays))

\* The body of the first if, then the second if.
Convert1(f1, line2) ==
    IF FirstBad(f1, Order1) # 0
    THEN Failure("ValueError", Ran(Order1, FirstBad(f1, Order1)), {})
    ELSE IF ~Line2Matches(line2) THEN Failure("format2", AllOf1, {})
    ELSE Convert2(f1, Fields2(line2))

Match1(line1, line2) ==
    IF ~Line1Matches(line1) THEN Failure("format1", {}, {})
    ELSE Convert1(Fields1(line1), line2)

\* twoline2rv(longstr1, longstr2, whichconst): what it raises, the Satellite
\* it returns, and the fields of each line it converted on the way.
twoline2rv(longstr1, longstr2) == Match1(RStrip(longstr1), RStrip(longstr2))

\* ----------------------------------------------------------- rv2twoline

\* s[-2:]
LastTwo(s) == SubSeq(s, Max(1, Len(s) - 1), Len(s))

\* s[2:]
FromThird(s) == SubSeq(s, 3, Len(s))

\* "{:=8.8f}".format(x).split(".")[-1]
AfterPoint(d) == LET t == FormatF(d, 8) IN SubSeq(t, DotAt(t) + 1, Len(t))

\* The second derivative of the mean motion, columns 45-52.
PutNddot(l, nddot) ==
    IF Mant(nddot) = 0 THEN SliceAssign(l, 45, 52, <<"0", "0", "0", "0", "0", "-", "0">>)
    ELSE
    LET nexp == IntLog10(nddot)
        ndot_fraction == Fraction(nddot, nexp)
        a == SetItem(l, 44, IF nddot.neg THEN "-" ELSE " ")
        b == SliceAssign(a, 45, 50, FromThird(FormatF(ndot_fraction, 5)))
    IN  SliceAssign(b, 50, 52, IF nexp < 0 THEN Str(nexp) ELSE <<"+">> \o Str(nexp))

\* The drag term, columns 54-61.
PutBstar(l, bstar) ==
    IF Mant(bstar) = 0 THEN SliceAssign(l, 54, 61, <<"0", "0", "0", "0", "0", "+", "0">>)
    ELSE
    LET ibexp0 == IntLog10(bstar)
        ibexp  == IF IsPow10(bstar) THEN ibexp0 + 1 ELSE ibexp0
        bstar_frac == Fraction(bstar, ibexp)
        a == SetItem(l, 53, IF bstar.neg THEN "-" ELSE " ")
        b == SliceAssign(a, 54, 59, FromThird(FormatF(bstar_frac, 5)))
    IN  SliceAssign(b, 59, 61, IF ibexp = 0 THEN <<"-">> \o Str(ibexp) ELSE Str(ibexp))

\* Line 1 before its checksum is stored.
Line1Body(satrec) ==
    LET l0 == SetItem(Spaces(69), 0, "1")
        l1 == SliceAssign(l0, 2, 7, FormatZD(satrec.satnum, 5))
        l2 == SetItem(l1, 7, satrec.classification)
        l3 == SliceAssign(l2, 9, 15, satrec.intldesg)
        l4 == SliceAssign(l3, 18, 20, LastTwo(Str(satrec.epochyr)))
        l5 == SliceAssign(l4, 20, 32, RJust(FormatF(satrec.epochdays, 8), 12, "0"))
        l6 == SliceAssign(l5, 33, 43,
                  (IF IsNegative(satrec.ndot) THEN <<"-", ".">> ELSE <<" ", ".">>)
                  \o AfterPoint(satrec.ndot))
        l7 == PutNddot(l6, satrec.nddot)
        l8 == PutBstar(l7, satrec.bstar)
        l9 == SetItem(l8, 62, "0")
    IN  SliceAssign(l9, 64, 68, FormatRD(satrec.elnum, 4))

\* log10(satrec.inclo / deg2rad) raises "math domain error" unless the
\* angle is above zero.
InclinationHasLog(inclo) == ~inclo.neg /\ ~IsZero(inclo)

\* int(log10(x)) for an angle x > 0, as far as the comparisons with 2 and 1 go.
InclinationDigits(inclo) ==
    IF inclo.ip >= 1000 THEN 3
    ELSE IF inclo.ip >= 100 THEN 2
    ELSE IF inclo.ip >= 10 THEN 1
    ELSE 0

\* The inclination, columns 9-16.
PutInclination(l, inclo) ==
    IF InclinationDigits(inclo) = 2 THEN SliceAssign(l, 8, 16, FormatRF(inclo, 8, 4))
    ELSE IF InclinationDigits(inclo) = 1 THEN SliceAssign(l, 9, 16, FormatRF(inclo, 7, 4))
    ELSE SliceAssign(l, 10, 16, FormatRF(inclo, 6, 4))

\* Line 2 before its checksum is stored (the inclination has a logarithm).
Line2Body(satrec) ==
    LET l0 == SetItem(Spaces(69), 0, "2")
        l1 == SliceAssign(l0, 2, 7, FormatZD(satrec.satnum, 5))
        l2 == PutInclination(l1, satrec.inclo)
        l3 == SliceAssign(l2, 17, 25, FormatRF(satrec.nodeo, 8, 4))
        l4 == SliceAssign(l3, 26, 33, FromThird(FormatRF(satrec.ecco, 8, 7)))
        l5 == SliceAssign(l4, 34, 42, FormatRF(satrec.argpo, 8, 4))
        l6 == SliceAssign(l5, 43, 51, FormatRF(satrec.mo, 8, 4))
        l7 == SliceAssign(l6, 52, 63, FormatRF(satrec.no_kozai, 11, 8))
    IN  SliceAssign(l7, 63, 68, FormatRD(satrec.revnum, 5))

\* line_out_list[68] = str(compute_checksum("".join(line_out_list)))
PutChecksum(l) == SetItem(l, 68, Str(compute_checksum(l))[1])

NoLines == [raised |-> "none", line1 |-> <<>>, line2 |-> <<>>]

\* rv2twoline(satrec): what it raises, or the two lines it returns.
rv2twoline(satrec) ==
    LET b1 == Line1Body(satrec)
        b2 == Line2Body(satrec)
    IN  IF Len(b1) < 69 THEN [NoLines EXCEPT !.raised = "IndexError"]
        ELSE IF ~InclinationHasLog(satrec.inclo) THEN [NoLines EXCEPT !.raised = "ValueError"]
        ELSE IF Len(b2) < 69 THEN [NoLines EXCEPT !.raised = "IndexError"]
        ELSE [raised |-> "none", line1 |-> PutChecksum(b1), line2 |-> PutChecksum(b2)]

\* --------------------------------------------------------------- inputs

\* Blanks appended to an input line: 0..MaxTrail.
MaxTrail == 2

\* Characters missing from the end of an input line: 0..MaxCut.
MaxCut == 6

\* Characters following column 69 of a line given to the checksum unit.
MaxExtra == 3

\* Lines given to one call of verify_checksum: 0..MaxLines.
MaxLines == 2

\* An ISS element set of the library's documentation.
Base1 ==
    << "1", " ", "2", "5", "5", "4", "4", "U", " ", "9", "8", "0",
       "6", "7", "A", " ", " ", " ", "0", "8", "2", "6", "4", ".",
       "5", "1", "7", "8", "2", "5", "2", "8", " ", "-", ".", "0",
       "0", "0", "0", "2", "1", "8", "2", " ", " ", "0", "0", "0",
       "0", "0", "-", "0", " ", "-", "1", "1", "6", "0", "6", "-",
       "4", " ", "0", " ", " ", "2", "9", "2", "7" >>

Base2 ==
    << "2", " ", "2", "5", "5", "4", "4", " ", " ", "5", "1", ".",
       "6", "4", "1", "6", " ", "2", "4", "7", ".", "4", "6", "2",
       "7", " ", "0", "0", "0", "6", "7", "0", "3", " ", "1", "3",
       "0", ".", "5", "3", "6", "0", " ", "3", "2", "5", ".", "0",
       "2", "8", "8", " ", "1", "5", ".", "7", "2", "1", "2", "5",
       "3", "9", "1", "5", "6", "3", "5", "3", "7" >>

\* s with t written over it from 0-based position i on (the length is kept).
Put(s, i, t) ==
    [k \in 1..Len(s) |-> IF k > i /\ k <= i + Len(t) THEN t[k - i] ELSE s[k]]

\* The same line with the checksum digit that belongs to it.
Signed(s) == Put(s, 68, Str(SumValues(SubSeq(s, 1, 68)) % 10))

\* The 1-based columns where a template shows a blank or a period.
Punctuation(template) == {k \in 1..Len(template) : template[k] \in {" ", "."}}

SatnumTexts ==
    { <<"2", "5", "5", "4", "5">>, <<"1", "5", "5", "4", "4">>,
      <<" ", " ", " ", " ", "5">>, <<"0", "0", "0", "0", "5">>,
      <<"A", "B", "C", "D", "E">> }

ChecksumChars == DigitSet \cup {"X"}

Lengths(s) ==
    {SubSeq(s, 1, Len(s) - c) : c \in 0..MaxCut} \cup {s \o Spaces(t) : t \in 1..MaxTrail}

\* First lines: every two-digit year, every template column broken, the
\* lengths, the satellite numbers, the checksum characters, and fields in
\* other spellings.
Lines1 ==
    {Signed(Put(Base1, 18, ZeroFill(yy, 2))) : yy \in 0..99}
    \cup {Put(Base1, k - 1, <<c>>) : k \in Punctuation(LINE1) \cup {1}, c \in {"X", "-"}}
    \cup Lengths(Base1)
    \cup {Signed(Put(Base1, 2, t)) : t \in SatnumTexts}
    \cup {Put(Base1, 68, <<c>>) : c \in ChecksumChars}
    \cup { Put(Base1, 18, <<" ", "8">>),
           Put(Base1, 64, <<"A", "B", "C", "D">>),
           Put(Base1, 20, <<"0", "0", "0">>),
           Put(Base1, 20, <<"3", "6", "6">>),
           Put(Base1, 33, <<"+">>),
           Put(Base1, 44, <<" ", "1", "2", "3", "4", "5", "-", "5">>),
           Put(Base1, 44, <<" ", "1", "0", "0", "0", "0", "-", "3">>),
           Put(Base1, 44, <<" ", "0", "0", "0", "0", "0", "+", "0">>),
           Put(Base1, 53, <<" ", "0", "0", "0", "0", "0", "-", "0">>),
           Put(Base1, 53, <<" ", "1", "0", "0", "0", "0", "-", "3">>),
           Put(Base1, 53, <<" ", "1", "2", "3", "4", "5", "+", "2">>) }

InclinationTexts ==
    { <<" ", " ", "0", ".", "0", "0", "0", "0">>, <<" ", " ", "0", ".", "5", "0", "0", "0">>,
      <<" ", " ", "9", ".", "9", "9", "9", "9">>, <<" ", "1", "0", ".", "0", "0", "0", "0">>,
      <<" ", "9", "9", ".", "9", "9", "9", "9">>, <<"1", "0", "0", ".", "0", "0", "0", "0">>,
      <<"1", "8", "0", ".", "0", "0", "0", "0">> }

\* Second lines, in the same way.
Lines2 ==
    {Signed(Put(Base2, 8, t)) : t \in InclinationTexts}
    \cup {Put(Base2, k - 1, <<c>>) : k \in Punctuation(LINE2) \cup {1}, c \in {"X", "-"}}
    \cup Lengths(Base2)
    \cup {Signed(Put(Base2, 2, t)) : t \in SatnumTexts}
    \cup {Put(Base2, 68, <<c>>) : c \in ChecksumChars}
    \cup { Put(Base2, 52, <<" ", "0", ".", "0", "0", "0", "0", "0", "0", "0", "0">>),
           Put(Base2, 63, <<"X">>) }

NoElements == [given |-> FALSE]

\* Inclinations of entities built directly, in degrees.
Inclinations ==
    { Dec(FALSE, 0, 0), Dec(FALSE, 0, 50000000), Dec(FALSE, 9, 99996000),
      Dec(FALSE, 51, 64160000), Dec(FALSE, 99, 99996000), Dec(FALSE, 100, 0),
      Dec(FALSE, 180, 0) }

Designators ==
    { <<"9", "8", "0", "6", "7", "A">>, <<"9", "8", "0", "6", "7", "A", " ", " ">> }

\* Elements for Satellite(...) called directly.
ElementSets ==
    [ given : {TRUE},
      satnum : {25544},
      epoch : {[ok |-> TRUE, year |-> y, doy |-> 264, frac |-> 51782528] : y \in {1957, 2008, 2056}},
      bstar : {Scaled(Dec(TRUE, 0, 11606000), -4), Scaled(Dec(FALSE, 0, 12345000), 2),
               Scaled(Dec(FALSE, 0, 0), 0)},
      inclo : Inclinations,
      nodeo : {Dec(FALSE, 247, 46270000)},
      ecco : {Dec(FALSE, 0, 67030)},
      argpo : {Dec(FALSE, 130, 53600000)},
      mo : {Dec(FALSE, 325, 2880000)},
      no_kozai : {Dec(FALSE, 15, 72125391), Dec(FALSE, 0, 0)},
      ndot : {Dec(TRUE, 0, 2182)},
      nddot : {Scaled(Dec(FALSE, 0, 0), 0), Scaled(Dec(FALSE, 0, 12345000), -5)},
      classification : {"U"},
      intldesg : Designators,
      elnum : {292},
      revnum : {56353} ]

Alphabet == DigitSet \cup {" ", ".", "-", "+", "U", "A", "X"}

ExtraChars(n) == [k \in 1..n |-> IF k % 2 = 1 THEN "7" ELSE "-"]

\* Lines for the checksum unit: both lines of the element set, followed by
\* up to MaxExtra characters, one character replaced, cut to any length.
CheckLines ==
    { SubSeq(Put(b \o ExtraChars(MaxExtra), p, <<c>>), 1, n) :
        b \in {Base1, Base2}, p \in {0, 33, 67, 68, 69}, c \in Alphabet,
        n \in 0..(69 + MaxExtra) }

\* Lines for calls of verify_checksum with several lines.
FewLines ==
    { Base1, Base2, Put(Base1, 68, <<"3">>), Put(Base2, 68, <<"0">>),
      Put(Base1, 68, <<"X">>), SubSeq(Base2, 1, 68),
      Put(Base1 \o ExtraChars(MaxExtra), 33, <<"+">>) }

RECURSIVE SeqsUpTo(_, _)
SeqsUpTo(S, n) ==
    IF n = 0 THEN {<<>>}
    ELSE LET shorter == SeqsUpTo(S, n - 1)
         IN  shorter \cup {Append(q, x) : q \in {r \in shorter : Len(r) = n - 1}, x \in S}

\* ---------------------------------------------------------------- state

VARIABLES
    op,         \* the last call made ("start" before any)
    longstr1,   \* the first argument of twoline2rv
    longstr2,   \* the second argument of twoline2rv
    elements,   \* the arguments of Satellite(...) called directly
    satrec,     \* the Satellite the last constructing call returned
    raised,     \* the exception the last call raised, "none" if it returned
    parsed1,    \* the fields of line 1 the last twoline2rv converted
    parsed2,    \* the fields of line 2 the last twoline2rv converted
    tle,        \* the pair of lines the last rv2twoline returned
    lines,      \* the lines given to the checksum unit
    computed,   \* what compute_checksum(lines[1]) returned, -1 before
    fixed,      \* what fix_checksum(lines[1]) returned
    verified,   \* the lines the last verify_checksum was given
    failing     \* verify_checksum: -1 not called, 0 returned, k: line k raised

vars == << op, longstr1, longstr2, elements, satrec, raised, parsed1, parsed2,
           tle, lines, computed, fixed, verified, failing >>

codec == << longstr1, longstr2, elements, satrec, raised, parsed1, parsed2, tle >>

checksums == << lines, computed, fixed, verified, failing >>

Blank ==
    /\ op = "start"
    /\ satrec = NoSat
    /\ raised = "none"
    /\ parsed1 = {}
    /\ parsed2 = {}
    /\ tle = NoLines
    /\ computed = -1
    /\ fixed = <<>>
    /\ verified = <<>>
    /\ failing = -1

\* The codec: two lines to parse, or elements to build a Satellite from.
Init ==
    /\ Blank
    /\ lines = <<>>
    /\ \/ /\ longstr1 \in Lines1
          /\ longstr2 \in Lines2
          /\ elements = NoElements
       \/ /\ longstr1 = <<>>
          /\ longstr2 = <<>>
          /\ elements \in ElementSets

Twoline2rv ==
    /\ op = "start"
    /\ ~elements.given
    /\ \E r \in {twoline2rv(longstr1, longstr2)} :
           /\ raised' = r.raised
           /\ satrec' = r.satrec
           /\ parsed1' = r.parsed1
           /\ parsed2' = r.parsed2
    /\ op' = "twoline2rv"
    /\ UNCHANGED << longstr1, longstr2, elements, tle, checksums >>

Construct ==
    /\ op = "start"
    /\ elements.given
    /\ LET e == elements
           r == Satellite(e.satnum, e.epoch, e.bstar, e.inclo, e.nodeo, e.ecco,
                          e.argpo, e.mo, e.no_kozai, e.ndot, e.nddot,
                          e.classification, e.intldesg, e.elnum, e.revnum)
       IN  /\ raised' = r.raised
           /\ satrec' = r.satrec
    /\ op' = "Satellite"
    /\ UNCHANGED << longstr1, longstr2, elements, parsed1, parsed2, tle, checksums >>

Rv2twoline ==
    /\ op \in {"twoline2rv", "Satellite"}
    /\ satrec.built
    /\ LET r == rv2twoline(satrec)
       IN  /\ raised' = r.raised
           /\ tle' = [r EXCEPT !.raised = "none"]
    /\ op' = "rv2twoline"
    /\ UNCHANGED << longstr1, longstr2, elements, satrec, parsed1, parsed2, checksums >>

Next == Twoline2rv \/ Construct \/ Rv2twoline

Spec == Init /\ [][Next]_vars

\* The checksum unit: the lines it is given.
InitChecksum ==
    /\ Blank
    /\ longstr1 = <<>>
    /\ longstr2 = <<>>
    /\ elements = NoElements
    /\ lines \in {<<l>> : l \in CheckLines} \cup SeqsUpTo(FewLines, MaxLines)

ComputeChecksum ==
    /\ op = "start"
    /\ Len(lines) = 1
    /\ computed' = compute_checksum(lines[1])
    /\ op' = "compute_checksum"
    /\ UNCHANGED << codec, lines, fixed, verified, failing >>

FixChecksum ==
    /\ op = "start"
    /\ Len(lines) = 1
    /\ fixed' = fix_checksum(lines[1])
    /\ op' = "fix_checksum"
    /\ UNCHANGED << codec, lines, computed, verified, failing >>

\* verify_checksum(*lines), or verify_checksum(fix_checksum(line)).
VerifyChecksum ==
    /\ op \in {"start", "fix_checksum"}
    /\ verified' = IF op = "fix_checksum" THEN <<fixed>> ELSE lines
    /\ failing' = verify_checksum(verified')
    /\ op' = "verify_checksum"
    /\ UNCHANGED << codec, lines, computed, fixed >>

NextChecksum == ComputeChecksum \/ FixChecksum \/ VerifyChecksum

SpecChecksum == InitChecksum /\ [][NextChecksum]_vars

\* --------------------------------------------------------------- claims

\* How often character c stands in the first 68 characters of a line.
Occurs(line, c) == Cardinality({k \in 1..Min(68, Len(line)) : line[k] = c})

\* The digit sum of the first 68 characters, each "-" counting 1.
Tally(line) ==
    Occurs(line, "1") + 2 * Occurs(line, "2") + 3 * Occurs(line, "3")
    + 4 * Occurs(line, "4") + 5 * Occurs(line, "5") + 6 * Occurs(line, "6")
    + 7 * Occurs(line, "7") + 8 * Occurs(line, "8") + 9 * Occurs(line, "9")
    + Occurs(line, "-")

\* Column 69 holds a decimal digit that is not the line's checksum.
HasWrongDigit(line) ==
    /\ Len(line) >= 69
    /\ line[69] \in DigitSet
    /\ line[69] # Digits[(Tally(line) % 10) + 1]

\* The line breaks a position the first if of twoline2rv tests.
Bad1(line) ==
    \/ Len(line) < 64
    \/ line[1] # "1"
    \/ \E k \in {2, 9, 33, 44, 53, 62, 64} : line[k] # " "
    \/ \E k \in {24, 35} : line[k] # "."

\* The line breaks a position the second if of twoline2rv tests.
Bad2(line) ==
    \/ Len(line) < 69
    \/ line[1] # "2"
    \/ \E k \in {2, 8, 17, 26, 34, 43, 52} : line[k] # " "
    \/ \E k \in {12, 21, 38, 47} : line[k] # "."

\* The line breaks a blank or a period of the template LINE1 that the
\* format error prints, is too short, or does not start with "1 ".
BreaksLINE1(line) ==
    \/ Len(line) < 64
    \/ line[1] # "1"
    \/ \E k \in Punctuation(LINE1) : k <= Len(line) /\ line[k] # LINE1[k]

\* The same for the template LINE2 ("2 ", 69 characters).
BreaksLINE2(line) ==
    \/ Len(line) < 69
    \/ line[1] # "2"
    \/ \E k \in Punctuation(LINE2) : k <= Len(line) /\ line[k] # LINE2[k]

Stripped1 == RStrip(longstr1)

Stripped2 == RStrip(longstr2)

\* The two lines are a well-formed element set: 69 characters each, the
\* tested positions in place, every field a number, the right checksums.
WellFormedPair ==
    /\ Len(longstr1) = 69
    /\ Len(longstr2) = 69
    /\ ~BreaksLINE1(longstr1)
    /\ ~BreaksLINE2(longstr2)
    /\ longstr1[69] = Digits[(Tally(longstr1) % 10) + 1]
    /\ longstr2[69] = Digits[(Tally(longstr2) % 10) + 1]

\* C1 (as claimed): for every well-formed pair of lines that twoline2rv
\* accepts, rv2twoline of the Satellite returns exactly the two lines.
C1_RoundTrip ==
    (op = "rv2twoline" /\ ~elements.given /\ WellFormedPair)
        => /\ raised = "none"
           /\ tle.line1 = longstr1
           /\ tle.line2 = longstr2

\* C2 (as claimed): both lines rv2twoline returns have exactly 69
\* characters, the last one the checksum digit of the line.
C2_Length69 ==
    (op = "rv2twoline" /\ raised = "none")
        => /\ Len(tle.line1) = 69
           /\ Len(tle.line2) = 69
           /\ tle.line1[Len(tle.line1)] = Digits[(Tally(tle.line1) % 10) + 1]
           /\ tle.line2[Len(tle.line2)] = Digits[(Tally(tle.line2) % 10) + 1]

\* C3 (as claimed): a Satellite is built only from lines whose checksum
\* digits, where present, equal the computed values.
C3_ChecksumGuardsEntity ==
    (op = "twoline2rv" /\ satrec.built)
        => ~HasWrongDigit(longstr1) /\ ~HasWrongDigit(longstr2)

\* C4 (as claimed): a first line that breaks any blank or period of the
\* line-1 template always gets the format error citing line 1, and no
\* Satellite.
C4_TemplateLINE1 ==
    (op = "twoline2rv" /\ BreaksLINE1(Stripped1))
        => raised = "format1" /\ ~satrec.built

\* C4 (amended): a first line that breaks a position the parser tests
\* (columns 1-2 "1 ", blanks at 9, 33, 44, 53, 62, 64, periods at 24, 35, at
\* least 64 characters) always gets the format error citing line 1, whatever
\* line 2 holds, with no field converted and no Satellite; the format error
\* cites line 2 only when line 1 passes and line 2 breaks its own tested
\* positions, and then no field of line 2 is converted.
C4_FormatErrorOrder ==
    op = "twoline2rv"
        => /\ Bad1(Stripped1)
                => raised = "format1" /\ ~satrec.built /\ parsed1 = {} /\ parsed2 = {}
           /\ raised = "format1" => Bad1(Stripped1)
           /\ raised = "format2"
                => ~Bad1(Stripped1) /\ Bad2(Stripped2) /\ ~satrec.built /\ parsed2 = {}

C4_Witness ==
    /\ op = "twoline2rv"
    /\ Len(Stripped1) >= 64
    /\ Stripped1[9] # " "
    /\ Bad2(Stripped2)
    /\ raised = "format1"
    /\ ~satrec.built

\* The satellite number written in columns 3-7 of a line.
SatnumOf(line) == ParseInt(SubSeq(line, 3, 7))

\* Both lines pass their tested positions and carry different numbers.
NumbersDiffer ==
    /\ ~Bad1(Stripped1)
    /\ ~Bad2(Stripped2)
    /\ SatnumOf(Stripped1).ok
    /\ SatnumOf(Stripped2).ok
    /\ SatnumOf(Stripped1).val # SatnumOf(Stripped2).val

C6_FixThenVerify ==
    /\ op = "fix_checksum"
        => /\ Len(fixed) = 69
           /\ \A k \in 1..68 : fixed[k] = IF k <= Len(lines[1]) THEN lines[1][k] ELSE " "
           /\ fixed[69] = Digits[(Tally(fixed) % 10) + 1]
    /\ (op = "verify_checksum" /\ fixed # <<>>)
        => verified = <<fixed>> /\ failing = 0

C6_Witness ==
    /\ op = "verify_checksum"
    /\ fixed # <<>>
    /\ verified = <<fixed>>
    /\ Len(lines[1]) > 69
    /\ HasWrongDigit(lines[1])
    /\ failing = 0

\* C7: verify_checksum raises exactly when some line has a decimal digit at
\* column 69 that differs from its checksum, and then for the first such
\* line; lines without a digit there are passed over.
C7_VerifyRaisesForFirstWrong ==
    op = "verify_checksum"
        => LET wrong == {k \in 1..Len(verified) : HasWrongDigit(verified[k])}
           IN  /\ wrong = {} <=> failing = 0
               /\ wrong # {} => failing \in wrong /\ \A k \in wrong : failing <= k

C7_Witness ==
    /\ op = "verify_checksum"
    /\ Len(verified) = 2
    /\ Len(verified[1]) >= 69
    /\ verified[1][69] \notin DigitSet
    /\ HasWrongDigit(verified[2])
    /\ failing = 2

\* C8: compute_checksum is the digit sum of the first 68 characters modulo
\* 10, "-" counting 1 and every other character 0; it lies in 0..9 and no
\* character from column 69 on enters it.
C8_ChecksumIsTallyMod10 ==
    op = "compute_checksum"
        => computed \in 0..9 /\ computed = Tally(lines[1]) % 10

C8_Witness ==
    /\ op = "compute_checksum"
    /\ Len(lines[1]) > 69
    /\ lines[1][69] \in DigitSet \ {"0"}
    /\ lines[1][70] = "7"
    /\ \E k \in 1..68 : lines[1][k] = "-"
    /\ \E k \in 1..68 : lines[1][k] = "+"
    /\ computed = Tally(lines[1]) % 10

\* Columns 19-20 of the first line hold two decimal digits.
HasTwoDigitYear == Len(longstr1) >= 20 /\ longstr1[19] \in DigitSet /\ longstr1[20] \in DigitSet

\* The number those two digits write.
YearDigits(line) ==
    10 * (CHOOSE a \in 0..9 : Digits[a + 1] = line[19])
    + (CHOOSE b \in 0..9 : Digits[b + 1] = line[20])

\* C9: the Satellite built from a line with the two-digit year yy has epoch
\* year 2000+yy for yy in 0..56 and 1900+yy for yy in 57..99, so a year in
\* 1957..2056, and rv2twoline writes yy back in columns 19-20.
C9_CenturyRule ==
    (op \in {"twoline2rv", "rv2twoline"} /\ satrec.built /\ HasTwoDigitYear)
        => LET yy == YearDigits(longstr1)
           IN  /\ yy <= 56 => satrec.epochyr = 2000 + yy
               /\ yy >= 57 => satrec.epochyr = 1900 + yy
               /\ satrec.epochyr \in 1957..2056
               /\ (op = "rv2twoline" /\ raised = "none")
                    => /\ tle.line1[19] = longstr1[19]
                       /\ tle.line1[20] = longstr1[20]

C9_Witness ==
    /\ op = "rv2twoline"
    /\ raised = "none"
    /\ HasTwoDigitYear
    /\ YearDigits(longstr1) = 56
    /\ satrec.epochyr = 2056
    /\ tle.line1[19] = "5"
    /\ tle.line1[20] = "6"

\* The inclination lies between 0 and 180 degrees inclusive.
InclinationInRange(inclo) ==
    ~IsNegative(inclo) /\ (inclo.ip < 180 \/ (inclo.ip = 180 /\ inclo.fp = 0))

\* C10 (as claimed): for an entity with an inclination of 0 to 180 degrees
\* rv2twoline returns normally with the inclination right-aligned in columns
\* 9-16 of line 2: the period at column 12, four decimals, a blank after.
C10_InclinationField ==
    (op = "rv2twoline" /\ InclinationInRange(satrec.inclo))
        => /\ raised # "ValueError"
           /\ raised = "none"
                => /\ tle.line2[12] = "."
                   /\ \A k \in 13..16 : tle.line2[k] \in DigitSet
                   /\ tle.line2[17] = " "

====
